---- MODULE Spec2Model ----
(***************************************************************************)
(* A model of the Finance-MVP scenario engine (scenario_engine.py) and of  *)
(* the /scenarios request handler (app.py).                                *)
(*                                                                         *)
(* Numbers.  The program computes in Python floats.  The model computes in *)
(* decimal fixed point: a dollar amount is an integer number of cents      *)
(* (CENTS units per dollar), a percentage (apr, invest_return) an integer  *)
(* number of 1/PCT percent, a weight an integer number of 1/CENTS.  Sums   *)
(* and differences are exact; a product with a rate or a share is rounded  *)
(* down to the cent.  The threshold 0.01 of the code is one cent.          *)
(* IEEE-754 rounding in the last place is below the model's resolution.    *)
(***************************************************************************)
EXTENDS Integers, Sequences, FiniteSets, TLC

\* Units of the fixed-point representation.
CENTS == 100
PCT == 100

Min(a, b) == IF a <= b THEN a ELSE b
Max(a, b) == IF a >= b THEN a ELSE b

\* floor(x * a / b) for b > 0, without forming the product x * a.
MulDiv(x, a, b) == (x \div b) * a + ((x % b) * a) \div b

\* math.ceil(x / y) for x >= 0, y > 0.
Ceil(x, y) == (x + y - 1) \div y

RECURSIVE SumSeq(_)
SumSeq(s) == IF s = <<>> THEN 0 ELSE Head(s) + SumSeq(Tail(s))

\* Optional[T]: <<>> is None, <<v>> is the value v.
None == <<>>
Some(v) == <<v>>

DebtCategory == {"credit_card", "student_loan", "auto", "mortgage", "personal", "other"}

ResultNames == <<"Pay Debt", "Invest", "Save", "Hybrid", "Debt + EF Goal">>

WeightKeys == <<"debt", "ef", "invest">>

(***************************************************************************)
(* Field bounds of the pydantic models.                                    *)
(***************************************************************************)
ValidDebt(d) ==
    /\ d.category \in DebtCategory
    /\ d.balance >= 0
    /\ d.apr >= 0 /\ d.apr <= 200 * PCT
    /\ d.min_payment >= 0
    /\ d.monthly_spend >= 0

ValidScenarioInput(p) ==
    /\ p.lump_sum >= 0
    /\ p.monthly_free_cash >= 0
    /\ \A i \in 1..Len(p.debts) : ValidDebt(p.debts[i])
    /\ p.invest_return >= -100 * PCT /\ p.invest_return <= 100 * PCT
    /\ p.emergency_fund_goal >= 0
    /\ (p.months # None => p.months[1] >= 1 /\ p.months[1] <= 360)
    /\ p.assumed_happiness >= 0 /\ p.assumed_happiness <= 100

(***************************************************************************)
(* Pure helpers of scenario_engine.py.                                     *)
(***************************************************************************)
\* (apr_pct / 100.0) / 12.0, kept as an exact fraction num / (den1 * den2).
_monthly_rate(apr_pct) == [num |-> apr_pct, den1 |-> 100 * 12, den2 |-> PCT]

\* x * rate, rounded down to the cent.
Times(x, r) == MulDiv(x, r.num, r.den1) \div r.den2

\* One pass of the loop body of _future_value: fv = fv * (1 + r) + monthly_contrib.
FutureValueStep(st) == [st EXCEPT !.fv = st.fv + Times(st.fv, st.r) + st.monthly_contrib]

\* n passes of the loop body, computed by halving n (zero stays zero).
RECURSIVE FutureValueLoop(_, _)
FutureValueLoop(st, n) ==
    IF n <= 0 THEN st
    ELSE IF n = 1 THEN FutureValueStep(st)
    ELSE LET half == FutureValueLoop(st, n \div 2)
         IN IF half.fv = 0 /\ half.monthly_contrib = 0 THEN half
            ELSE FutureValueLoop(half, n - n \div 2)

FutureValueShort(monthly_contrib, months, annual_return_pct) ==
    FutureValueLoop([fv |-> 0, monthly_contrib |-> monthly_contrib,
                     r |-> _monthly_rate(annual_return_pct)], months - 1).fv

_future_value(monthly_contrib, months, annual_return_pct) ==
    FutureValueLoop([fv |-> 0, monthly_contrib |-> monthly_contrib,
                     r |-> _monthly_rate(annual_return_pct)], months).fv

\* One pass of the loop body of _amortize_single; returned is set by its return.
AmortizeStep(st) ==
    IF st.returned THEN st
    ELSE LET interest == Times(st.balance, st.r)
             principal_paid == Max(0, st.monthly_payment - interest)
             b1 == Max(0, st.balance - principal_paid)
             b2 == IF st.monthly_spend > 0 THEN b1 + st.monthly_spend ELSE b1
         IN [st EXCEPT !.balance = b2, !.interest_paid = @ + interest,
                       !.m = @ + 1, !.returned = (b2 <= 1)]

RECURSIVE AmortizeLoop(_, _)
AmortizeLoop(st, n) ==
    IF n <= 0 THEN st
    ELSE IF n = 1 THEN AmortizeStep(st)
    ELSE LET half == AmortizeLoop(st, n \div 2)
         IN IF half.returned THEN half ELSE AmortizeLoop(half, n - n \div 2)

\* Returns the pair (interest_paid, month).
_amortize_single(balance, apr_pct, monthly_payment, months, monthly_spend) ==
    IF balance <= 0 THEN [interest_paid |-> 0, month |-> 0]
    ELSE LET end == AmortizeLoop([balance |-> balance, interest_paid |-> 0, m |-> 0,
                                  returned |-> FALSE, r |-> _monthly_rate(apr_pct),
                                  monthly_payment |-> monthly_payment,
                                  monthly_spend |-> monthly_spend], months)
         IN [interest_paid |-> end.interest_paid,
             month |-> IF end.returned THEN end.m ELSE months]

_total_balance_and_min_payment(debts) ==
    [total_balance |-> SumSeq([i \in 1..Len(debts) |-> debts[i].balance]),
     total_min |-> SumSeq([i \in 1..Len(debts) |-> debts[i].min_payment])]

Unclamped(est) == est

\* min(max(est, 6), 360)
ClampTimeline(est) == Min(Max(est, 6), 360)

_estimate_timeline(inp) ==
    LET tm == _total_balance_and_min_payment(inp.debts)
        total_balance == tm.total_balance
        total_min == tm.total_min
    IN IF total_balance > 0 /\ total_min > 0
       THEN LET weighted == SumSeq([i \in 1..Len(inp.debts) |->
                                       inp.debts[i].apr * inp.debts[i].balance])
                avg_apr == weighted \div total_balance
                interest_per_month == Times(total_balance, _monthly_rate(avg_apr))
                principal_payment == Max(1 * CENTS, total_min - interest_per_month)
                est_months == Ceil(total_balance, principal_payment)
            IN ClampTimeline(est_months + 3)
       ELSE IF inp.emergency_fund_goal > 0 /\ inp.monthly_free_cash > 0
       THEN ClampTimeline(Ceil(inp.emergency_fund_goal, inp.monthly_free_cash))
       ELSE 60

(***************************************************************************)
(* The multi-debt simulation: the steps of one simulated month.            *)
(***************************************************************************)
BeforeUnsorted(ds, i, j) == i < j

\* key=lambda x: -x["apr"] under Python's stable sort: i comes before j.
Before(ds, i, j) == ds[i].apr > ds[j].apr \/ (ds[i].apr = ds[j].apr /\ i < j)

\* The indices of ds in the order sorted(ds, key=-apr) visits them.
SortedOrder(ds) ==
    [p \in 1..Len(ds) |->
        CHOOSE i \in 1..Len(ds) :
            Cardinality({j \in 1..Len(ds) : Before(ds, j, i)}) = p - 1]

sorted_by_apr(ds) == LET o == SortedOrder(ds) IN [p \in 1..Len(ds) |-> ds[o[p]]]

\* for d in debts: apply = min(balance, remaining) ... (lump pre-application).
\* Visits ds in list order; returns the debts, what each received, what is left.
RECURSIVE LumpLoop(_, _, _, _)
LumpLoop(ds, k, remaining, applied) ==
    IF k > Len(ds) \/ remaining <= 0
    THEN [debts |-> ds, applied |-> applied, remaining |-> remaining]
    ELSE LET apply == Min(ds[k].balance, remaining)
         IN LumpLoop([ds EXCEPT ![k].balance = Max(0, @ - apply)], k + 1,
                     remaining - apply, [applied EXCEPT ![k] = apply])

ApplyLump(ds, lump) == LumpLoop(ds, 1, lump, [i \in 1..Len(ds) |-> 0])

\* Step 1 of a month: revolving spend accrues on credit cards.
ApplySpend(ds) ==
    [i \in 1..Len(ds) |->
        IF ds[i].category = "credit_card" /\ ds[i].monthly_spend > 0
        THEN [ds[i] EXCEPT !.balance = @ + ds[i].monthly_spend]
        ELSE ds[i]]

InterestOf(d) == IF d.balance <= 0 THEN 0 ELSE Times(d.balance, _monthly_rate(d.apr))

MinPayOf(d) == IF d.balance <= 0 THEN 0 ELSE Min(d.min_payment, d.balance + InterestOf(d))

\* Step 2 of a month: interest accrues, then the minimum payment is applied.
AccrueAndPayMin(ds) ==
    [debts |-> [i \in 1..Len(ds) |->
                   IF ds[i].balance <= 0 THEN ds[i]
                   ELSE [ds[i] EXCEPT !.balance =
                            Max(0, ds[i].balance + InterestOf(ds[i]) - MinPayOf(ds[i]))]],
     interest |-> SumSeq([i \in 1..Len(ds) |-> InterestOf(ds[i])]),
     paid |-> [i \in 1..Len(ds) |-> MinPayOf(ds[i])]]

\* What every debt owes once the month's interest is on it.
OwedOf(ds) == [i \in 1..Len(ds) |-> ds[i].balance + InterestOf(ds[i])]

\* Step 3 of a month: the extra pool goes to the debts in sorted order.
RECURSIVE ExtraLoop(_, _, _, _, _)
ExtraLoop(ds, order, k, rem_extra, applied) ==
    IF k > Len(order) \/ rem_extra <= 0
    THEN [debts |-> ds, applied |-> applied, remaining |-> rem_extra]
    ELSE LET i == order[k]
         IN IF ds[i].balance <= 0
            THEN ExtraLoop(ds, order, k + 1, rem_extra, applied)
            ELSE LET apply == Min(rem_extra, ds[i].balance)
                 IN ExtraLoop([ds EXCEPT ![i].balance = Max(0, @ - apply)], order, k + 1,
                              rem_extra - apply, [applied EXCEPT ![i] = apply])

DistributeExtra(ds, extra) ==
    ExtraLoop(ds, SortedOrder(ds), 1, extra, [i \in 1..Len(ds) |-> 0])

\* all(d["balance"] <= 0.01 for d in sim_debts)
AllPaid(ds) == \A i \in 1..Len(ds) : ds[i].balance <= 1

\* One whole month: the debts after it and the interest accrued in it.
MonthStep(ds, extra) ==
    LET a == AccrueAndPayMin(ApplySpend(ds))
        x == DistributeExtra(a.debts, extra)
    IN [debts |-> x.debts, interest |-> a.interest]

\* One pass of the month loop of Pay Debt and of Hybrid.  payoff is the month
\* the loop broke at, 0 while it is running.
SimStart(ds, extra) ==
    [debts |-> ds, month |-> 0, extra |-> extra, interest |-> 0, payoff |-> 0]

SimStep(st) ==
    IF st.payoff # 0 THEN st
    ELSE LET s == MonthStep(st.debts, st.extra)
         IN [st EXCEPT !.debts = s.debts, !.month = @ + 1, !.interest = @ + s.interest,
                       !.payoff = IF AllPaid(s.debts) THEN st.month + 1 ELSE 0]

RECURSIVE SimLoop(_, _)
SimLoop(st, n) ==
    IF n <= 0 THEN st
    ELSE IF n = 1 THEN SimStep(st)
    ELSE LET half == SimLoop(st, n \div 2)
         IN IF half.payoff # 0 THEN half ELSE SimLoop(half, n - n \div 2)

EfBreakOnEither(ef_balance, goal, payoff_e) == ef_balance >= goal \/ payoff_e # 0

\* if ef_balance >= inp.emergency_fund_goal and payoff_e != 0: break
EfBreak(ef_balance, goal, payoff_e) == ef_balance >= goal /\ payoff_e # 0

\* One pass of the month loop of Debt + EF Goal.  stopped is set by its break.
EfStart(ds, extra, lump_ef, monthly_to_ef, goal, horizon) ==
    [debts |-> ds, month |-> 0, extra |-> extra, interest |-> 0, payoff |-> 0,
     ef_balance |-> lump_ef, monthly_to_ef |-> monthly_to_ef, goal |-> goal,
     ef_goal_month |-> horizon, horizon |-> horizon, stopped |-> FALSE]

EfStep(st) ==
    IF st.stopped THEN st
    ELSE LET s == MonthStep(st.debts, st.extra)
             month == st.month + 1
             ef == st.ef_balance + st.monthly_to_ef
             po == IF AllPaid(s.debts) /\ st.payoff = 0 THEN month ELSE st.payoff
         IN [st EXCEPT !.debts = s.debts, !.month = month, !.interest = @ + s.interest,
                       !.ef_balance = ef, !.payoff = po,
                       !.ef_goal_month = IF ef >= st.goal /\ @ = st.horizon
                                         THEN month ELSE @,
                       !.stopped = EfBreak(ef, st.goal, po)]

RECURSIVE EfLoop(_, _)
EfLoop(st, n) ==
    IF n <= 0 THEN st
    ELSE IF n = 1 THEN EfStep(st)
    ELSE LET half == EfLoop(st, n \div 2)
         IN IF half.stopped THEN half ELSE EfLoop(half, n - n \div 2)

(***************************************************************************)
(* run_scenarios.                                                          *)
(***************************************************************************)
ScenarioResult(name, interest_saved, investment_value, liquidity, payoff, horizon, alloc) ==
    [name |-> name, end_balance |-> 0, interest_saved |-> interest_saved,
     investment_value |-> investment_value, liquidity |-> liquidity,
     time_to_debt_free_months |-> payoff, timeline_used |-> horizon,
     allocations |-> alloc]

\* horizon = inp.months if inp.months else _estimate_timeline(inp)
Horizon(inp) ==
    IF inp.months # None /\ inp.months[1] # 0 THEN inp.months[1]
    ELSE _estimate_timeline(inp)

\* The baseline: every debt alone under its minimum payment.
BaselineOf(d, horizon) ==
    _amortize_single(d.balance, d.apr, d.min_payment, horizon,
                     IF d.category = "credit_card" THEN d.monthly_spend ELSE 0)

Baseline(debts, horizon) ==
    [interest |-> SumSeq([i \in 1..Len(debts) |-> BaselineOf(debts[i], horizon).interest_paid]),
     payoff_month |-> LET ms == {BaselineOf(debts[i], horizon).month : i \in 1..Len(debts)}
                      IN IF ms = {} THEN 0 ELSE CHOOSE m \in ms : \A n \in ms : n <= m]

\* if payoff == 0: payoff = horizon
PayoffOrHorizon(payoff, horizon) == IF payoff = 0 THEN horizon ELSE payoff

NoWeightsOnlyNone(inp) == inp.weights = None

\* if not inp.weights: None and the empty mapping alike.
NoWeights(inp) == inp.weights = None \/ DOMAIN inp.weights[1] = {}

\* w.get(k, 0.0)
WeightGet(w, k) == IF k \in DOMAIN w THEN w[k] ELSE 0

\* x * (w.get(k) / total_w) with total_w = max(1e-9, sum of the three weights),
\* rounded down to the cent.
ShareOf(x, w, k) ==
    LET sum == SumSeq([i \in 1..Len(WeightKeys) |-> WeightGet(w, WeightKeys[i])])
    IN IF sum > 0 THEN MulDiv(x, WeightGet(w, k), sum)
       ELSE x * WeightGet(w, k) * (1000000000 \div CENTS)

PayDebtResult(inp, horizon, base, lumped) ==
    LET sim == SimLoop(SimStart(lumped.debts, inp.monthly_free_cash), horizon)
    IN ScenarioResult("Pay Debt", Max(0, base.interest - sim.interest), 0, 0,
                      PayoffOrHorizon(sim.payoff, horizon), horizon,
                      [lump_to_debt |-> inp.lump_sum,
                       monthly_to_debt |-> inp.monthly_free_cash])

InvestResult(inp, horizon, base) ==
    ScenarioResult("Invest", 0,
                   _future_value(inp.monthly_free_cash, horizon, inp.invest_return)
                       + inp.lump_sum,
                   0, base.payoff_month, horizon,
                   [lump_to_invest |-> inp.lump_sum,
                    monthly_to_invest |-> inp.monthly_free_cash])

SaveLiquidityUncapped(inp, horizon) ==
    Min(inp.emergency_fund_goal, inp.lump_sum) + inp.monthly_free_cash * horizon

SaveLiquidity(inp, horizon) ==
    Min(inp.emergency_fund_goal, inp.lump_sum) + inp.monthly_free_cash * Min(horizon, 12)

SaveResult(inp, horizon, base) ==
    ScenarioResult("Save", 0, 0, SaveLiquidity(inp, horizon), base.payoff_month, horizon,
                   [lump_to_ef |-> Min(inp.lump_sum, inp.emergency_fund_goal),
                    monthly_to_ef |-> inp.monthly_free_cash])

\* sim_debts_h = [dict(d) for d in debts_sorted]: copies of debts_sorted as the
\* lump pre-application of Pay Debt left it.
HybridResult(inp, horizon, base, lumped) ==
    LET w == inp.weights[1]
        lump_debt == ShareOf(inp.lump_sum, w, "debt")
        lump_ef == ShareOf(inp.lump_sum, w, "ef")
        lump_invest == ShareOf(inp.lump_sum, w, "invest")
        monthly_to_debt == ShareOf(inp.monthly_free_cash, w, "debt")
        monthly_to_ef == ShareOf(inp.monthly_free_cash, w, "ef")
        monthly_to_invest == ShareOf(inp.monthly_free_cash, w, "invest")
        start == ApplyLump(lumped.debts, lump_debt)
        sim == SimLoop(SimStart(start.debts, monthly_to_debt), horizon)
    IN ScenarioResult("Hybrid", Max(0, base.interest - sim.interest),
                      _future_value(monthly_to_invest, horizon, inp.invest_return)
                          + lump_invest,
                      lump_ef + monthly_to_ef * Min(horizon, 12),
                      PayoffOrHorizon(sim.payoff, horizon), horizon,
                      [lump_debt |-> lump_debt, lump_invest |-> lump_invest,
                       lump_ef |-> lump_ef, monthly_to_debt |-> monthly_to_debt,
                       monthly_to_invest |-> monthly_to_invest,
                       monthly_to_ef |-> monthly_to_ef])

DebtEfResult(inp, horizon, base, lumped) ==
    LET w == inp.weights[1]
        lump_debt_e == ShareOf(inp.lump_sum, w, "debt")
        lump_ef_e == ShareOf(inp.lump_sum, w, "ef")
        monthly_to_debt_e == ShareOf(inp.monthly_free_cash, w, "debt")
        monthly_to_ef_e == ShareOf(inp.monthly_free_cash, w, "ef")
        start == ApplyLump(lumped.debts, lump_debt_e)
        sim == EfLoop(EfStart(start.debts, monthly_to_debt_e, lump_ef_e, monthly_to_ef_e,
                              inp.emergency_fund_goal, horizon), horizon)
    IN ScenarioResult("Debt + EF Goal", Max(0, base.interest - sim.interest), 0,
                      sim.ef_balance, PayoffOrHorizon(sim.payoff, horizon), horizon,
                      [lump_debt |-> lump_debt_e, lump_ef |-> lump_ef_e,
                       monthly_to_debt |-> monthly_to_debt_e,
                       monthly_to_ef |-> monthly_to_ef_e])

run_scenarios(inp) ==
    LET horizon == Horizon(inp)
        base == Baseline(inp.debts, horizon)
        lumped == ApplyLump(sorted_by_apr(inp.debts), inp.lump_sum)
        three == <<PayDebtResult(inp, horizon, base, lumped),
                   InvestResult(inp, horizon, base),
                   SaveResult(inp, horizon, base)>>
    IN IF NoWeights(inp) THEN three
       ELSE three \o <<HybridResult(inp, horizon, base, lumped),
                       DebtEfResult(inp, horizon, base, lumped)>>

\* inp.debts once run_scenarios has returned.  debts_copy holds the dicts that
\* model_dump() creates, so the writes to debts_sorted never reach inp.debts.
DebtsAliased(inp) ==
    LET o == SortedOrder(inp.debts)
        lumped == ApplyLump(sorted_by_apr(inp.debts), inp.lump_sum)
    IN [i \in 1..Len(inp.debts) |->
           lumped.debts[CHOOSE p \in 1..Len(o) : o[p] = i]]

DebtsAfterCall(inp) == inp.debts

(***************************************************************************)
(* The assessment endpoints of app.py.  Weights are counted in hundredths  *)
(* (0.33 is 33, score * 0.05 is 5 * score), normalized weights in          *)
(* thousandths (round(x, 3)).                                              *)
(***************************************************************************)
\* Python's round(num / den) for den > 0: the nearest integer, a tie to the even one.
RoundHalfEven(num, den) ==
    LET q == num \div den
        r == num % den
    IN IF 2 * r < den THEN q
       ELSE IF 2 * r > den THEN q + 1
       ELSE IF q % 2 = 0 THEN q ELSE q + 1

\* round(num / den, 3) of two floats, den > 0, in thousandths: the nearest
\* thousandth.  Where the exact quotient lies halfway between two thousandths
\* the float quotient lies a rounding error to one side or the other, and
\* round() follows it: up tells which.
RoundNearest(num, den, up) ==
    LET q == num \div den
        r == num % den
    IN IF 2 * r < den THEN q
       ELSE IF 2 * r > den THEN q + 1
       ELSE IF up THEN q + 1 ELSE q

BucketKeys == <<"debt", "ef", "invest">>

\* For every weight, the side its quotient falls to if it is halfway.
TieBreaks == [{"debt", "ef", "invest"} -> BOOLEAN]

\* The if / elif chain over qid: the bucket a question adds to, "" for none.
BucketOf(qid) ==
    IF qid \in {"q1", "q3", "q5", "q9"} THEN "debt"
    ELSE IF qid \in {"q2", "q6", "q7", "q8"} THEN "ef"
    ELSE IF qid \in {"q4", "q10"} THEN "invest"
    ELSE ""

\* weights = {"debt":0.33,"ef":0.33,"invest":0.34}
AssessBaseWeights == [debt |-> 33, ef |-> 33, invest |-> 34]

\* for r in responses: weights[bucket] += s * 0.05
RECURSIVE DeriveWeights(_, _, _)
DeriveWeights(responses, k, weights) ==
    IF k > Len(responses) THEN weights
    ELSE LET b == BucketOf(responses[k].id)
         IN DeriveWeights(responses, k + 1,
                          IF b = "" THEN weights
                          ELSE [weights EXCEPT ![b] = @ + responses[k].score * 5])

SumWeights(weights) == SumSeq([i \in 1..Len(BucketKeys) |-> weights[BucketKeys[i]]])

TotalWeightIsOne(weights) == 100

\* total = sum(weights.values()) or 1.0
TotalWeight(weights) == IF SumWeights(weights) = 0 THEN 100 ELSE SumWeights(weights)

\* {k: round(v/total, 3) for k, v in weights.items()}
Normalized(weights, up) ==
    LET total == TotalWeight(weights)
    IN [k \in DOMAIN weights |->
           IF total > 0 THEN RoundNearest(weights[k] * 1000, total, up[k])
           ELSE -RoundNearest(weights[k] * 1000, -total, ~up[k])]

\* score = int(round(avg * 20))
AssessScore(responses) ==
    RoundHalfEven(SumSeq([i \in 1..Len(responses) |-> responses[i].score]) * 20,
                  Len(responses))

LabelOfExclusive(score) ==
    IF score > 80 THEN "Excellent"
    ELSE IF score > 65 THEN "Good"
    ELSE IF score > 50 THEN "Moderate"
    ELSE "Low"

LabelOf(score) ==
    IF score >= 80 THEN "Excellent"
    ELSE IF score >= 65 THEN "Good"
    ELSE IF score >= 50 THEN "Moderate"
    ELSE "Low"

\* What a handler answers: an HTTPException (status 400, no body) or a body.
HttpError == [error |-> TRUE, status |-> 400, body |-> None]
HttpOk(body) == [error |-> FALSE, status |-> 200, body |-> Some(body)]

\* POST /assess.  raw is the handler's local weights before normalization.
assess(responses, up) ==
    IF Len(responses) = 0 THEN [answer |-> HttpError, raw |-> None]
    ELSE LET score == AssessScore(responses)
             weights == DeriveWeights(responses, 1, AssessBaseWeights)
         IN [answer |-> HttpOk([score |-> score, label |-> LabelOf(score),
                                weights |-> Normalized(weights, up)]),
             raw |-> Some(weights)]

\* POST /quick_assess.
quick_assess(choice) ==
    IF choice \notin {"debt", "ef", "invest"} THEN [answer |-> HttpError, raw |-> None]
    ELSE [answer |-> HttpOk([score |-> 60, label |-> "Quick",
                             weights |-> [[debt |-> 33, ef |-> 33, invest |-> 33]
                                            EXCEPT ![choice] = 60]]),
          raw |-> None]

(***************************************************************************)
(* The recommendation of build_narratives (narratives.py) and the          *)
(* /scenarios handler that calls it.                                       *)
(***************************************************************************)
\* score = investment_value + liquidity + interest_saved
ResultScore(r) == r.investment_value + r.liquidity + r.interest_saved

ScoreAtLeast(score, best_score) == score >= best_score

\* if score > best_score
ScoreBetter(score, best_score) == score > best_score

\* best_score = -1; best_name = None; for r in results: ...
RECURSIVE BestLoop(_, _, _, _)
BestLoop(results, k, best_score, best_name) ==
    IF k > Len(results) THEN best_name
    ELSE IF ScoreBetter(ResultScore(results[k]), best_score)
    THEN BestLoop(results, k + 1, ResultScore(results[k]), Some(results[k].name))
    ELSE BestLoop(results, k + 1, best_score, best_name)

\* The strategy named in the last line build_narratives appends.
Recommended(payload, results) ==
    IF \E i \in 1..Len(results) :
          /\ results[i].name = "Debt + EF Goal"
          /\ results[i].liquidity >= payload.emergency_fund_goal
    THEN "Debt + EF Goal"
    ELSE LET best_name == BestLoop(results, 1, -1 * CENTS, None)
         IN IF best_name = None THEN "Hybrid" ELSE best_name[1]

\* POST /scenarios: ScenarioInput(**payload), run_scenarios, build_narratives.
scenarios(p) ==
    IF ~ValidScenarioInput(p) THEN [answer |-> HttpError, raw |-> None]
    ELSE LET res == run_scenarios(p)
         IN [answer |-> HttpOk([inputs |-> p, results |-> res,
                                recommended |-> Recommended(p, res)]),
             raw |-> None]

(***************************************************************************)
(* Bounds of the model and the inputs it draws.                            *)
(***************************************************************************)
\* Calls of run_scenarios on one ScenarioInput object.
MaxCalls == 2
\* The longest explicit horizon (months) a request asks for.
MaxMonths == 14
\* lump_sum ranges over 0..MaxLump steps of fifty dollars.
MaxLump == 3

Debt(c, b, a, m, s) ==
    [category |-> c, balance |-> b * CENTS, apr |-> a * PCT, min_payment |-> m * CENTS,
     monthly_spend |-> s * CENTS]

DebtLists ==
    { <<>>,
      <<Debt("auto", 100, 24, 10, 0)>>,
      <<Debt("auto", 0, 24, 10, 0)>>,
      <<Debt("credit_card", 100, 24, 1000, 50)>>,
      <<Debt("auto", 100, 12, 10, 0), Debt("credit_card", 200, 24, 5, 0)>>,
      <<Debt("auto", 100, 24, 10, 0), Debt("student_loan", 150, 24, 10, 0)>>,
      <<Debt("auto", 360, 24, 1, 0)>>,
      <<Debt("credit_card", 50, 0, 0, 20)>>,
      <<Debt("personal", 40, 6, 20, 0), Debt("mortgage", 120, 30, 0, 0),
        Debt("other", 30, 30, 5, 0)>> }

WeightChoices ==
    { None,
      Some([k \in {} |-> 0]),
      Some([debt |-> 100]),
      Some([debt |-> 20, ef |-> 20, invest |-> 60]),
      Some([debt |-> 0, ef |-> 0, invest |-> 0]),
      Some([debt |-> 200, ef |-> -100]),
      Some([debt |-> -100, ef |-> 200]) }

Input(l, f, ds, r, g, mo, h, w) ==
    [lump_sum |-> l, monthly_free_cash |-> f, debts |-> ds, invest_return |-> r,
     emergency_fund_goal |-> g, months |-> mo, assumed_happiness |-> h, weights |-> w]

\* Requests whose every field is within the bounds run_scenarios enforces.
GoodPayloads ==
    { Input(l * 50 * CENTS, f, ds, r * PCT, g, mo, 60, w) :
        l \in 0..MaxLump, f \in {0, 30 * CENTS}, ds \in DebtLists, r \in {-100, 0, 12},
        g \in {0, 100 * CENTS}, mo \in {None, Some(1), Some(MaxMonths)},
        w \in WeightChoices }

BasePayload ==
    Input(50 * CENTS, 30 * CENTS, <<Debt("auto", 100, 24, 10, 0)>>, 12 * PCT, 100 * CENTS,
          Some(MaxMonths), 60, None)

BaseDebt == BasePayload.debts[1]

\* The base request with one field at, or one step beyond, its bound.
EdgePayloads ==
    { [BasePayload EXCEPT !.lump_sum = -1],
      [BasePayload EXCEPT !.monthly_free_cash = -1],
      [BasePayload EXCEPT !.emergency_fund_goal = -1],
      [BasePayload EXCEPT !.invest_return = -100 * PCT - 1],
      [BasePayload EXCEPT !.invest_return = 100 * PCT + 1],
      [BasePayload EXCEPT !.invest_return = 100 * PCT],
      [BasePayload EXCEPT !.months = Some(0)],
      [BasePayload EXCEPT !.months = Some(361)],
      [BasePayload EXCEPT !.months = Some(360)],
      [BasePayload EXCEPT !.assumed_happiness = -1],
      [BasePayload EXCEPT !.assumed_happiness = 101],
      [BasePayload EXCEPT !.assumed_happiness = 0],
      [BasePayload EXCEPT !.assumed_happiness = 100],
      [BasePayload EXCEPT !.debts = <<[BaseDebt EXCEPT !.balance = -1]>>],
      [BasePayload EXCEPT !.debts = <<[BaseDebt EXCEPT !.min_payment = -1]>>],
      [BasePayload EXCEPT !.debts = <<[BaseDebt EXCEPT !.monthly_spend = -1]>>],
      [BasePayload EXCEPT !.debts = <<[BaseDebt EXCEPT !.apr = -1]>>],
      [BasePayload EXCEPT !.debts = <<[BaseDebt EXCEPT !.apr = 200 * PCT + 1]>>],
      [BasePayload EXCEPT !.debts = <<[BaseDebt EXCEPT !.apr = 200 * PCT]>>],
      [BasePayload EXCEPT !.debts = <<[BaseDebt EXCEPT !.category = "boat"]>>],
      [BasePayload EXCEPT !.debts = <<BaseDebt, [BaseDebt EXCEPT !.balance = -1]>>] }

Payloads == GoodPayloads \cup EdgePayloads

\* The requests the two-object specification draws.
FewPayloads ==
    { p \in GoodPayloads :
        /\ p.lump_sum = 50 * CENTS /\ p.monthly_free_cash = 30 * CENTS
        /\ p.invest_return = 12 * PCT /\ p.emergency_fund_goal = 100 * CENTS
        /\ p.months = Some(MaxMonths)
        /\ p.weights \in {None, Some([debt |-> 20, ef |-> 20, invest |-> 60])}
        /\ Len(p.debts) >= 1 }

Slots == {1, 2}

(***************************************************************************)
(* The state: per slot, the request last received, the ScenarioInput       *)
(* object built from it, and what run_scenarios returned for that object.  *)
(***************************************************************************)
VARIABLES payload, inp, raised, results, prev, calls

\* The Pay Debt simulation of one call, step by step: where it stands (phase),
\* its locals, and what the last distribution of money did: the debts before
\* it, the pool it had, what each debt received and what was left.
VARIABLES sim

\* The request an endpoint of app.py was called with and what it answered.
VARIABLES api

\* A weighted simulation (Hybrid or Debt + EF Goal) of one call, step by step.
VARIABLES wsim

vars == <<payload, inp, raised, results, prev, calls, sim, api, wsim>>

ApiIdle == [endpoint |-> "", request |-> None, answer |-> None, raw |-> None]

WIdle ==
    [strategy |-> "", phase |-> "idle", input |-> None, horizon |-> 0, month |-> 0,
     debts |-> <<>>, start |-> <<>>, lump_debt |-> 0, lump_ef |-> 0, extra |-> 0,
     monthly_to_ef |-> 0, interest |-> 0, payoff |-> 0, ef_balance |-> 0,
     ef_goal_month |-> 0, broke |-> FALSE, seen |-> <<>>, before |-> <<>>, pool |-> 0,
     applied |-> <<>>, remaining |-> 0, owed |-> <<>>, minpaid |-> <<>>]

SimIdle ==
    [phase |-> "idle", input |-> None, horizon |-> 0, month |-> 0, debts |-> <<>>,
     origin |-> <<>>,
     extra |-> 0, interest |-> 0, payoff |-> 0, before |-> <<>>, pool |-> 0,
     applied |-> <<>>, remaining |-> 0, owed |-> <<>>, minpaid |-> <<>>]

Init ==
    /\ payload = [s \in Slots |-> None]
    /\ inp = [s \in Slots |-> None]
    /\ raised = [s \in Slots |-> FALSE]
    /\ results = [s \in Slots |-> <<>>]
    /\ prev = [s \in Slots |-> None]
    /\ calls = [s \in Slots |-> 0]
    /\ sim = SimIdle
    /\ api = ApiIdle
    /\ wsim = WIdle

\* ScenarioInput(**p): the object, or a validation error and no object.
NewInput(s, p) ==
    /\ payload[s] = None
    /\ payload' = [payload EXCEPT ![s] = Some(p)]
    /\ IF ValidScenarioInput(p)
       THEN inp' = [inp EXCEPT ![s] = Some(p)] /\ raised' = raised
       ELSE inp' = inp /\ raised' = [raised EXCEPT ![s] = TRUE]
    /\ UNCHANGED <<results, prev, calls, sim, api, wsim>>

\* run_scenarios(inp) on the object of slot s.
RunScenarios(s) ==
    /\ inp[s] # None
    /\ calls[s] < MaxCalls
    /\ results' = [results EXCEPT ![s] = run_scenarios(inp[s][1])]
    /\ prev' = [prev EXCEPT ![s] = IF calls[s] = 0 THEN None ELSE Some(results[s])]
    /\ inp' = [inp EXCEPT ![s] = Some([inp[s][1] EXCEPT !.debts = DebtsAfterCall(inp[s][1])])]
    /\ calls' = [calls EXCEPT ![s] = @ + 1]
    /\ UNCHANGED <<payload, raised, sim, api, wsim>>

Next ==
    \/ \E p \in Payloads : NewInput(1, p)
    \/ RunScenarios(1)

Spec == Init /\ [][Next]_vars

NextCalls ==
    \/ \E s \in Slots, p \in FewPayloads : NewInput(s, p)
    \/ \E s \in Slots : RunScenarios(s)

SpecCalls == Init /\ [][NextCalls]_vars

(***************************************************************************)
(* The Pay Debt simulation of run_scenarios, one step at a time.           *)
(***************************************************************************)
SimPayloads ==
    { p \in GoodPayloads :
        /\ p.invest_return = 0 /\ p.emergency_fund_goal = 0 /\ p.weights = None
        /\ p.months # None }

\* The lump pre-application: debts_sorted, then the loop over it.
StartPayDebt(p) ==
    /\ sim.phase = "idle" /\ wsim.phase = "idle"
    /\ LET debts_sorted == sorted_by_apr(p.debts)
           lumped == ApplyLump(debts_sorted, p.lump_sum)
       IN sim' = [phase |-> "spend", input |-> Some(p), horizon |-> Horizon(p), month |-> 0,
                  debts |-> lumped.debts, origin |-> SortedOrder(p.debts),
                  extra |-> p.monthly_free_cash, interest |-> 0, payoff |-> 0,
                  before |-> debts_sorted, pool |-> p.lump_sum,
                  applied |-> lumped.applied, remaining |-> lumped.remaining,
                  owed |-> <<>>, minpaid |-> <<>>]
    /\ UNCHANGED <<payload, inp, raised, results, prev, calls, api, wsim>>

\* for month in range(1, horizon + 1): the revolving spend of the month.
SpendAccrual ==
    /\ sim.phase = "spend"
    /\ sim' = [sim EXCEPT !.phase = "interest", !.month = @ + 1,
                          !.debts = ApplySpend(sim.debts)]
    /\ UNCHANGED <<payload, inp, raised, results, prev, calls, api, wsim>>

InterestAndMinimum ==
    /\ sim.phase = "interest"
    /\ LET a == AccrueAndPayMin(sim.debts)
       IN sim' = [sim EXCEPT !.phase = "extra", !.debts = a.debts,
                             !.interest = @ + a.interest,
                             !.owed = OwedOf(sim.debts), !.minpaid = a.paid]
    /\ UNCHANGED <<payload, inp, raised, results, prev, calls, api, wsim>>

ExtraDistribution ==
    /\ sim.phase = "extra"
    /\ LET x == DistributeExtra(sim.debts, sim.extra)
       IN sim' = [sim EXCEPT !.phase = "check", !.debts = x.debts,
                             !.before = sim.debts, !.pool = sim.extra,
                             !.applied = x.applied, !.remaining = x.remaining]
    /\ UNCHANGED <<payload, inp, raised, results, prev, calls, api, wsim>>

\* if all(balance <= 0.01): record the month and break; else the next month,
\* or, after the last one, payoff = horizon.
PayoffCheck ==
    /\ sim.phase = "check"
    /\ sim' = IF AllPaid(sim.debts)
              THEN [sim EXCEPT !.phase = "done", !.payoff = sim.month]
              ELSE IF sim.month = sim.horizon
              THEN [sim EXCEPT !.phase = "done",
                               !.payoff = PayoffOrHorizon(sim.payoff, sim.horizon)]
              ELSE [sim EXCEPT !.phase = "spend"]
    /\ UNCHANGED <<payload, inp, raised, results, prev, calls, api, wsim>>

NextSim ==
    \/ \E p \in SimPayloads : StartPayDebt(p)
    \/ SpendAccrual
    \/ InterestAndMinimum
    \/ ExtraDistribution
    \/ PayoffCheck

SpecSim == Init /\ [][NextSim]_vars

(***************************************************************************)
(* The Hybrid and the Debt + EF Goal simulations of run_scenarios, one     *)
(* step at a time.  seen records, month by month, what the end of the      *)
(* month looked like: whether every balance was <= 0.01 and whether the    *)
(* emergency fund had reached its goal.                                    *)
(***************************************************************************)
WeightedPayloads ==
    { p \in GoodPayloads : p.invest_return = 0 /\ p.months # None /\ ~NoWeights(p) }

\* debts_sorted as run_scenarios holds it when the weighted strategies copy
\* it: sorted, and with the lump pre-application of Pay Debt written into it.
DebtsSortedAfterPayDebt(p) == ApplyLump(sorted_by_apr(p.debts), p.lump_sum).debts

\* sim_debts_h = [dict(d) for d in debts_sorted] and the loop over rem.
StartHybrid(p) ==
    /\ wsim.phase = "idle" /\ sim.phase = "idle"
    /\ LET debts_sorted == DebtsSortedAfterPayDebt(p)
           lump_debt == ShareOf(p.lump_sum, p.weights[1], "debt")
           pre == ApplyLump(debts_sorted, lump_debt)
       IN wsim' = [strategy |-> "Hybrid", phase |-> "accrue", input |-> Some(p),
                   horizon |-> Horizon(p), month |-> 0, debts |-> pre.debts,
                   start |-> pre.debts, lump_debt |-> lump_debt,
                   lump_ef |-> ShareOf(p.lump_sum, p.weights[1], "ef"),
                   extra |-> ShareOf(p.monthly_free_cash, p.weights[1], "debt"),
                   monthly_to_ef |-> ShareOf(p.monthly_free_cash, p.weights[1], "ef"),
                   interest |-> 0, payoff |-> 0, ef_balance |-> 0, ef_goal_month |-> 0,
                   broke |-> FALSE, seen |-> <<>>, before |-> debts_sorted,
                   pool |-> lump_debt, applied |-> pre.applied,
                   remaining |-> pre.remaining, owed |-> <<>>, minpaid |-> <<>>]
    /\ UNCHANGED <<payload, inp, raised, results, prev, calls, sim, api>>

\* sim_debts_e = [dict(d) for d in debts_sorted], the loop over rem, and the
\* locals of the month loop.
StartDebtEf(p) ==
    /\ wsim.phase = "idle" /\ sim.phase = "idle"
    /\ LET debts_sorted == DebtsSortedAfterPayDebt(p)
           lump_debt_e == ShareOf(p.lump_sum, p.weights[1], "debt")
           lump_ef_e == ShareOf(p.lump_sum, p.weights[1], "ef")
           pre == ApplyLump(debts_sorted, lump_debt_e)
       IN wsim' = [strategy |-> "Debt + EF Goal", phase |-> "spend", input |-> Some(p),
                   horizon |-> Horizon(p), month |-> 0, debts |-> pre.debts,
                   start |-> pre.debts, lump_debt |-> lump_debt_e, lump_ef |-> lump_ef_e,
                   extra |-> ShareOf(p.monthly_free_cash, p.weights[1], "debt"),
                   monthly_to_ef |-> ShareOf(p.monthly_free_cash, p.weights[1], "ef"),
                   interest |-> 0, payoff |-> 0, ef_balance |-> lump_ef_e,
                   ef_goal_month |-> Horizon(p), broke |-> FALSE, seen |-> <<>>,
                   before |-> debts_sorted, pool |-> lump_debt_e,
                   applied |-> pre.applied, remaining |-> pre.remaining,
                   owed |-> <<>>, minpaid |-> <<>>]
    /\ UNCHANGED <<payload, inp, raised, results, prev, calls, sim, api>>

\* Hybrid: one loop over the debts adds the spend, accrues the interest and
\* applies the minimum payment.
HybridAccrual ==
    /\ wsim.strategy = "Hybrid" /\ wsim.phase = "accrue"
    /\ LET a == AccrueAndPayMin(ApplySpend(wsim.debts))
       IN wsim' = [wsim EXCEPT !.phase = "extra", !.month = @ + 1, !.debts = a.debts,
                               !.interest = @ + a.interest,
                               !.owed = OwedOf(ApplySpend(wsim.debts)),
                               !.minpaid = a.paid]
    /\ UNCHANGED <<payload, inp, raised, results, prev, calls, sim, api>>

EfSpendAccrual ==
    /\ wsim.strategy = "Debt + EF Goal" /\ wsim.phase = "spend"
    /\ wsim' = [wsim EXCEPT !.phase = "interest", !.month = @ + 1,
                            !.debts = ApplySpend(wsim.debts)]
    /\ UNCHANGED <<payload, inp, raised, results, prev, calls, sim, api>>

EfInterestAndMinimum ==
    /\ wsim.strategy = "Debt + EF Goal" /\ wsim.phase = "interest"
    /\ LET a == AccrueAndPayMin(wsim.debts)
       IN wsim' = [wsim EXCEPT !.phase = "extra", !.debts = a.debts,
                               !.interest = @ + a.interest,
                               !.owed = OwedOf(wsim.debts), !.minpaid = a.paid]
    /\ UNCHANGED <<payload, inp, raised, results, prev, calls, sim, api>>

\* rem_extra = monthly_to_debt and the loop over the debts by APR.
WeightedExtra ==
    /\ wsim.phase = "extra"
    /\ LET x == DistributeExtra(wsim.debts, wsim.extra)
       IN wsim' = [wsim EXCEPT !.phase = "check", !.debts = x.debts,
                               !.before = wsim.debts, !.pool = wsim.extra,
                               !.applied = x.applied, !.remaining = x.remaining]
    /\ UNCHANGED <<payload, inp, raised, results, prev, calls, sim, api>>

\* Hybrid: if all(balance <= 0.01): payoff_h = month; break.
HybridPayoffCheck ==
    /\ wsim.strategy = "Hybrid" /\ wsim.phase = "check"
    /\ LET now == [paid |-> AllPaid(wsim.debts), ef_met |-> FALSE]
       IN wsim' = IF AllPaid(wsim.debts)
                  THEN [wsim EXCEPT !.phase = "done", !.payoff = wsim.month,
                                    !.broke = TRUE, !.seen = Append(@, now)]
                  ELSE IF wsim.month = wsim.horizon
                  THEN [wsim EXCEPT !.phase = "done", !.seen = Append(@, now),
                                    !.payoff = PayoffOrHorizon(wsim.payoff, wsim.horizon)]
                  ELSE [wsim EXCEPT !.phase = "accrue", !.seen = Append(@, now)]
    /\ UNCHANGED <<payload, inp, raised, results, prev, calls, sim, api>>

\* Debt + EF Goal: the deposit, ef_goal_month, payoff_e and the break; after
\* the last month, payoff_e = horizon if it is still 0.
EfDepositAndCheck ==
    /\ wsim.strategy = "Debt + EF Goal" /\ wsim.phase = "check"
    /\ LET goal == wsim.input[1].emergency_fund_goal
           ef_balance == wsim.ef_balance + wsim.monthly_to_ef
           ef_goal_month == IF ef_balance >= goal /\ wsim.ef_goal_month = wsim.horizon
                            THEN wsim.month ELSE wsim.ef_goal_month
           payoff_e == IF AllPaid(wsim.debts) /\ wsim.payoff = 0
                       THEN wsim.month ELSE wsim.payoff
           now == [paid |-> AllPaid(wsim.debts), ef_met |-> ef_balance >= goal]
           next == [wsim EXCEPT !.ef_balance = ef_balance,
                                !.ef_goal_month = ef_goal_month,
                                !.payoff = payoff_e, !.seen = Append(@, now)]
       IN wsim' = IF EfBreak(ef_balance, goal, payoff_e)
                  THEN [next EXCEPT !.phase = "done", !.broke = TRUE]
                  ELSE IF wsim.month = wsim.horizon
                  THEN [next EXCEPT !.phase = "done",
                                    !.payoff = PayoffOrHorizon(payoff_e, wsim.horizon)]
                  ELSE [next EXCEPT !.phase = "spend"]
    /\ UNCHANGED <<payload, inp, raised, results, prev, calls, sim, api>>

NextWeighted ==
    \/ \E p \in WeightedPayloads : StartHybrid(p)
    \/ \E p \in WeightedPayloads : StartDebtEf(p)
    \/ HybridAccrual
    \/ EfSpendAccrual
    \/ EfInterestAndMinimum
    \/ WeightedExtra
    \/ HybridPayoffCheck
    \/ EfDepositAndCheck

SpecWeighted == Init /\ [][NextWeighted]_vars

\* The three multi-debt simulations of a call, each stepped from its start
\* to its end.
NextSims == NextSim \/ NextWeighted

SpecSims == Init /\ [][NextSims]_vars

(***************************************************************************)
(* The endpoints of app.py, one request at a time.                         *)
(***************************************************************************)
\* The longest list of responses drawn in full.
MaxResponses == 2

Response(q, sc) == [id |-> q, score |-> sc]

\* One question of every bucket and one the table does not know.
IdChoices == {"q1", "q2", "q4", "q11"}

\* The scale 1..5 and one step beyond it on either side.
ScoreChoices == 0..6

RECURSIVE ListsUpTo(_)
ListsUpTo(n) ==
    IF n = 0 THEN {<<>>}
    ELSE LET shorter == ListsUpTo(n - 1)
         IN shorter \cup
            { Append(l, Response(q, sc)) :
                l \in {x \in shorter : Len(x) = n - 1}, q \in IdChoices, sc \in ScoreChoices }

\* Longer lists: means of 2.125 (a tie of the rounding), 3.25 and 4.
LongResponseLists ==
    { [i \in 1..8 |-> Response(IF i % 2 = 0 THEN "q2" ELSE "q1",
                               IF i = 1 THEN 1 ELSE IF i > 6 THEN 3 ELSE 2)],
      [i \in 1..4 |-> Response("q4", IF i = 4 THEN 4 ELSE 3)],
      [i \in 1..4 |-> Response("q3", 4)] }

ResponseLists == ListsUpTo(MaxResponses) \cup LongResponseLists

QuickChoices == {"debt", "ef", "invest", "save", ""}

Assess(responses, up) ==
    /\ api.endpoint = ""
    /\ LET a == assess(responses, up)
       IN api' = [endpoint |-> "assess", request |-> Some(responses),
                  answer |-> Some(a.answer), raw |-> a.raw]
    /\ UNCHANGED <<payload, inp, raised, results, prev, calls, sim, wsim>>

QuickAssess(choice) ==
    /\ api.endpoint = ""
    /\ LET a == quick_assess(choice)
       IN api' = [endpoint |-> "quick_assess", request |-> Some(choice),
                  answer |-> Some(a.answer), raw |-> a.raw]
    /\ UNCHANGED <<payload, inp, raised, results, prev, calls, sim, wsim>>

Scenarios(p) ==
    /\ api.endpoint = ""
    /\ LET a == scenarios(p)
       IN api' = [endpoint |-> "scenarios", request |-> Some(p),
                  answer |-> Some(a.answer), raw |-> a.raw]
    /\ UNCHANGED <<payload, inp, raised, results, prev, calls, sim, wsim>>

NextApi ==
    \/ \E responses \in ResponseLists, up \in TieBreaks : Assess(responses, up)
    \/ \E choice \in QuickChoices : QuickAssess(choice)
    \/ \E p \in Payloads : Scenarios(p)

SpecApi == Init /\ [][NextApi]_vars

(***************************************************************************)
(* Properties.                                                             *)
(***************************************************************************)
Called(s) == calls[s] >= 1
TheInput(s) == inp[s][1]
Names(s) == [i \in 1..Len(results[s]) |-> results[s][i].name]
WeightsAbsentOrEmpty(w) == w = None \/ DOMAIN w[1] = {}

\* C1: run_scenarios returns Pay Debt, Invest, Save, in that order, when weights
\* is absent or an empty mapping, and those three followed by Hybrid and
\* Debt + EF Goal when weights is a non-empty mapping.
C1_ResultNames ==
    \A s \in Slots : Called(s) =>
        Names(s) = IF WeightsAbsentOrEmpty(TheInput(s).weights)
                   THEN <<"Pay Debt", "Invest", "Save">>
                   ELSE <<"Pay Debt", "Invest", "Save", "Hybrid", "Debt + EF Goal">>

C1_Witness ==
    /\ Called(1)
    /\ TheInput(1).weights # None
    /\ DOMAIN TheInput(1).weights[1] = {}
    /\ Len(results[1]) = 3

\* C2: every result has 1 <= time_to_debt_free_months <= timeline_used.
C2_PayoffInRange ==
    \A s \in Slots : \A i \in 1..Len(results[s]) :
        /\ 1 <= results[s][i].time_to_debt_free_months
        /\ results[s][i].time_to_debt_free_months <= results[s][i].timeline_used

WithinStatedBounds(p) ==
    /\ p.lump_sum >= 0 /\ p.monthly_free_cash >= 0 /\ p.emergency_fund_goal >= 0
    /\ \A i \in 1..Len(p.debts) :
          /\ p.debts[i].category \in
                {"credit_card", "student_loan", "auto", "mortgage", "personal", "other"}
          /\ p.debts[i].balance >= 0 /\ p.debts[i].min_payment >= 0
          /\ p.debts[i].monthly_spend >= 0
          /\ 0 <= p.debts[i].apr /\ p.debts[i].apr <= 200 * PCT
    /\ -100 * PCT <= p.invest_return /\ p.invest_return <= 100 * PCT
    /\ (p.months # None => 1 <= p.months[1] /\ p.months[1] <= 360)
    /\ 0 <= p.assumed_happiness /\ p.assumed_happiness <= 100
    /\ (p.weights # None => \A k \in DOMAIN p.weights[1] : p.weights[1][k] >= 0)

\* C4: a request fails with a validation error, and yields no object to run,
\* exactly when some field is outside its stated bound; a request within the
\* bounds is run and returns results.
C4_ErrorIffOutOfBounds ==
    \A s \in Slots : payload[s] # None =>
        /\ raised[s] <=> ~WithinStatedBounds(payload[s][1])
        /\ raised[s] => inp[s] = None /\ results[s] = <<>>
        /\ ~raised[s] => inp[s] # None

\* C5: with lump_sum = 0 and monthly_free_cash = 0, Pay Debt reports
\* interest_saved = 0.
C5_NoExtraNoSaving ==
    \A s \in Slots :
        Called(s) /\ TheInput(s).lump_sum = 0 /\ TheInput(s).monthly_free_cash = 0
            => results[s][1].interest_saved = 0

\* Debt i of the sorted list has priority over debt j: a higher APR, or the
\* same APR and an earlier place in the input.
Earlier(ds, origin, i, j) ==
    ds[i].apr > ds[j].apr \/ (ds[i].apr = ds[j].apr /\ origin[i] < origin[j])

\* C6: in the lump pre-application and in every month's distribution of the
\* extra pool, a debt receives money only if every debt of higher APR (ties: the
\* earlier in the input) has balance 0 afterwards, and what it receives is the
\* smaller of its balance and what those debts left of the pool.
C6_HighestAprFirst ==
    (sim.phase = "check" \/ (sim.phase = "spend" /\ sim.month = 0)) =>
        \A j \in 1..Len(sim.debts) : sim.applied[j] > 0 =>
            LET first == {i \in 1..Len(sim.debts) : Earlier(sim.before, sim.origin, i, j)}
                taken == SumSeq([i \in 1..Len(sim.debts) |->
                                   IF i \in first THEN sim.applied[i] ELSE 0])
            IN /\ \A i \in first : sim.debts[i].balance = 0
               /\ sim.applied[j] = Min(sim.pool - taken, sim.before[j].balance)
               /\ sim.debts[j].balance = sim.before[j].balance - sim.applied[j]

C6_Witness ==
    /\ sim.phase = "check"
    /\ Len(sim.debts) = 2
    /\ sim.origin = <<2, 1>>
    /\ sim.applied[1] > 0 /\ sim.applied[2] > 0
    /\ sim.debts[1].balance = 0 /\ sim.debts[2].balance > 0

C8_SaveLiquidity ==
    \A s \in Slots : Called(s) =>
        LET p == TheInput(s)
            r == results[s][3]
        IN /\ r.name = "Save"
           /\ r.liquidity = Min(p.lump_sum, p.emergency_fund_goal)
                              + p.monthly_free_cash * Min(r.timeline_used, 12)
           /\ (p.emergency_fund_goal = 0 /\ p.months # None
                 => r.liquidity = p.monthly_free_cash * Min(p.months[1], 12))

C8_Witness ==
    /\ Called(1)
    /\ TheInput(1).emergency_fund_goal = 0
    /\ TheInput(1).lump_sum > 0
    /\ TheInput(1).months # None /\ TheInput(1).months[1] > 12
    /\ results[1][3].liquidity = 360 * CENTS

\* C9: in every result, interest_saved, investment_value and liquidity are >= 0.
C9_NonNegativeProjections ==
    \A s \in Slots : \A i \in 1..Len(results[s]) :
        /\ results[s][i].interest_saved >= 0
        /\ results[s][i].investment_value >= 0
        /\ results[s][i].liquidity >= 0

\* C10: all results of a call carry the same timeline_used: months when it
\* is supplied, and otherwise an estimate within 6..360.
C10_OneTimeline ==
    \A s \in Slots : Called(s) =>
        /\ \A i \in 1..Len(results[s]) :
              results[s][i].timeline_used = results[s][1].timeline_used
        /\ (TheInput(s).months # None
              => results[s][1].timeline_used = TheInput(s).months[1])
        /\ (TheInput(s).months = None
              => 6 <= results[s][1].timeline_used /\ results[s][1].timeline_used <= 360)

C10_Witness ==
    /\ Called(1)
    /\ TheInput(1).months = None
    /\ Len(results[1]) = 5
    /\ \A i \in 1..5 : results[1][i].timeline_used = 360

\* The request of the /assess call of this state, its answer and its body.
AssessCalled == api.endpoint = "assess"
TheResponses == api.request[1]
TheAnswer == api.answer[1]
TheBody == api.answer[1].body[1]
ScoreSum(responses) == SumSeq([i \in 1..Len(responses) |-> responses[i].score])
ScoresInScale(responses) ==
    \A i \in 1..Len(responses) : 1 <= responses[i].score /\ responses[i].score <= 5
Abs(x) == IF x < 0 THEN -x ELSE x

\* C11: for a non-empty list of responses with scores in 1..5, whatever their
\* ids, the three weights assess returns (rounded to 3 decimals) sum to 1.0
\* within 0.002.
C11_WeightsSumToOne ==
    AssessCalled /\ Len(TheResponses) > 0 /\ ScoresInScale(TheResponses) =>
        /\ ~TheAnswer.error
        /\ DOMAIN TheBody.weights = {"debt", "ef", "invest"}
        /\ Abs(SumWeights(TheBody.weights) - 1000) <= 2

C11_Witness ==
    /\ AssessCalled /\ Len(TheResponses) > 0 /\ ScoresInScale(TheResponses)
    /\ \E i \in 1..Len(TheResponses) : BucketOf(TheResponses[i].id) = ""
    /\ \E i \in 1..Len(TheResponses) : BucketOf(TheResponses[i].id) = "invest"
    /\ SumWeights(TheBody.weights) = 999

\* C12: assess fails with a validation error, and answers no score, label or
\* weights, exactly when the list of responses is empty or some score is
\* outside 1..5.
C12_AssessValidation ==
    AssessCalled =>
        /\ TheAnswer.error <=> (Len(TheResponses) = 0 \/ ~ScoresInScale(TheResponses))
        /\ TheAnswer.error => TheAnswer.body = None

\* C13: for a non-empty list of responses with scores in 1..5, score is
\* mean(scores) * 20 rounded to the nearest integer and lies in 0..100; label
\* is Excellent from 80, Good from 65, Moderate from 50 and Low below; one
\* response of score 5 gives 100 and Excellent.
C13_ScoreAndLabel ==
    AssessCalled /\ Len(TheResponses) > 0 /\ ScoresInScale(TheResponses) =>
        LET n == Len(TheResponses)
            score == TheBody.score
            label == TheBody.label
        IN /\ 2 * Abs(score * n - 20 * ScoreSum(TheResponses)) <= n
           /\ 0 <= score /\ score <= 100
           /\ label = "Excellent" <=> score >= 80
           /\ label = "Good" <=> (65 <= score /\ score < 80)
           /\ label = "Moderate" <=> (50 <= score /\ score < 65)
           /\ label = "Low" <=> score < 50
           /\ (TheResponses = <<Response("q1", 5)>> => score = 100 /\ label = "Excellent")

C13_Witness ==
    /\ AssessCalled /\ Len(TheResponses) = 4 /\ ScoresInScale(TheResponses)
    /\ TheBody.score = 65
    /\ TheBody.label = "Good"

\* C14: quick_assess answers score 60, label Quick and weights 0.6 for the
\* chosen category and 0.2 for each of the other two (sum 1.0) when choice is
\* debt, ef or invest, and fails for any other choice.
C14_QuickWeights ==
    api.endpoint = "quick_assess" =>
        LET choice == api.request[1]
        IN IF choice \in {"debt", "ef", "invest"}
           THEN /\ ~TheAnswer.error
                /\ TheBody.score = 60 /\ TheBody.label = "Quick"
                /\ \A k \in {"debt", "ef", "invest"} :
                      TheBody.weights[k] = IF k = choice THEN 60 ELSE 20
           ELSE TheAnswer.error

\* C19: the recommendation is Debt + EF Goal when that result is present with
\* liquidity >= emergency_fund_goal, and otherwise the name of the first
\* result, in list order, whose investment_value + liquidity + interest_saved
\* is the maximum.
C19_Recommendation ==
    api.endpoint = "scenarios" /\ ~TheAnswer.error =>
        LET res == TheBody.results
            goal == api.request[1].emergency_fund_goal
            goalMet == \E i \in 1..Len(res) :
                          res[i].name = "Debt + EF Goal" /\ res[i].liquidity >= goal
            first == CHOOSE i \in 1..Len(res) :
                        /\ \A j \in 1..Len(res) : ResultScore(res[j]) <= ResultScore(res[i])
                        /\ \A j \in 1..(i - 1) : ResultScore(res[j]) < ResultScore(res[i])
        IN TheBody.recommended = IF goalMet THEN "Debt + EF Goal" ELSE res[first].name

C19_Witness ==
    /\ api.endpoint = "scenarios" /\ ~TheAnswer.error
    /\ Len(TheBody.results) = 3
    /\ ResultScore(TheBody.results[2]) = ResultScore(TheBody.results[3])
    /\ ResultScore(TheBody.results[2]) > ResultScore(TheBody.results[1])
    /\ TheBody.recommended = "Invest"

\* C20: before normalization the three weights of assess sum to
\* 3 * 0.33 + 0.05 * (the sum of all scores): every bucket starts at 0.33 and
\* every response adds score * 0.05 to one bucket.
C20_RawWeights ==
    AssessCalled /\ ~TheAnswer.error =>
        SumWeights(api.raw[1]) = 3 * 33 + 5 * ScoreSum(TheResponses)

\* C16: Debt + EF Goal splits the lump sum and the monthly surplus between
\* debt and emergency fund only: when the debt or the ef weight is positive,
\* lump_debt + lump_ef = lump_sum and monthly_to_debt + monthly_to_ef =
\* monthly_free_cash (to the cent), whatever the invest weight is.
C16_TwoWaySplit ==
    \A s \in Slots :
        (/\ Called(s) /\ Len(results[s]) = 5
         /\ (WeightGet(TheInput(s).weights[1], "debt") > 0
               \/ WeightGet(TheInput(s).weights[1], "ef") > 0)) =>
            LET a == results[s][5].allocations
            IN /\ results[s][5].name = "Debt + EF Goal"
               /\ Abs(a.lump_debt + a.lump_ef - TheInput(s).lump_sum) <= 1
               /\ Abs(a.monthly_to_debt + a.monthly_to_ef
                        - TheInput(s).monthly_free_cash) <= 1

\* The debt-based estimate as the specification states it for any input
\* with a debt: total balance over max(1.0, total minimum payment - total
\* balance * balance-weighted monthly rate), plus 3, clamped to [6, 360].
StatedDebtEstimate(p) ==
    LET tm == _total_balance_and_min_payment(p.debts)
        weighted == SumSeq([i \in 1..Len(p.debts) |-> p.debts[i].apr * p.debts[i].balance])
        avg_apr == IF tm.total_balance > 0 THEN weighted \div tm.total_balance ELSE 0
        drag == Times(tm.total_balance, _monthly_rate(avg_apr))
    IN Min(Max(Ceil(tm.total_balance, Max(1 * CENTS, tm.total_min - drag)) + 3, 6), 360)

\* C18: with months absent, an input with at least one debt gets the
\* debt-based estimate as its horizon; the emergency-fund estimate and the
\* default 60 are used only when there is no debt.
C18_DebtEstimate ==
    \A s \in Slots :
        Called(s) /\ TheInput(s).months = None /\ Len(TheInput(s).debts) >= 1 =>
            results[s][1].timeline_used = StatedDebtEstimate(TheInput(s))

\* C15: the Hybrid and the Debt + EF Goal simulations start from the input
\* balances reduced only by the strategy's own lump share, applied
\* highest-APR-first, and not also by the lump sum Pay Debt pre-applied.
C15_OwnClone ==
    wsim.phase # "idle" =>
        wsim.start = ApplyLump(sorted_by_apr(wsim.input[1].debts), wsim.lump_debt).debts

\* At the end of month j of the Debt + EF Goal loop the emergency fund had
\* reached its goal and every balance had been <= 0.01 at some month <= j.
BothMet(j) == wsim.seen[j].ef_met /\ \E k \in 1..j : wsim.seen[k].paid

\* C17: the Debt + EF Goal loop ends before the horizon only at the first
\* month at which both the goal is reached and the debts have been paid off;
\* it goes on past a month at which only one of the two holds.  Its months to
\* debt-free is the first month all balances were <= 0.01, the horizon if
\* there is none, and its liquidity is lump_ef + monthly_to_ef * the months
\* simulated.
C17_StopsWhenBothMet ==
    wsim.strategy = "Debt + EF Goal" =>
        LET m == wsim.month
            paidMonths == {k \in 1..Len(wsim.seen) : wsim.seen[k].paid}
        IN IF wsim.phase = "done"
           THEN /\ Len(wsim.seen) = m
                /\ \A j \in 1..(m - 1) : ~BothMet(j)
                /\ m < wsim.horizon => BothMet(m)
                /\ wsim.broke <=> BothMet(m)
                /\ wsim.payoff = IF paidMonths = {} THEN wsim.horizon
                                 ELSE CHOOSE k \in paidMonths : \A l \in paidMonths : k <= l
                /\ wsim.ef_balance = wsim.lump_ef + wsim.monthly_to_ef * m
           ELSE /\ \A j \in 1..Len(wsim.seen) : ~BothMet(j)
                /\ Len(wsim.seen) < wsim.horizon

C17_Witness ==
    /\ wsim.strategy = "Debt + EF Goal" /\ wsim.phase = "done"
    /\ wsim.broke /\ wsim.month < wsim.horizon
    /\ wsim.input[1].emergency_fund_goal > 0
    /\ wsim.payoff > 1 /\ wsim.payoff < wsim.month
    /\ \E j \in 1..(wsim.month - 1) : wsim.seen[j].paid /\ ~wsim.seen[j].ef_met
    /\ ~wsim.seen[1].paid

\* C21: Pay Debt's time_to_debt_free_months is never later than the one
\* Invest and Save report (minimum payments only), also for debts of balance 0
\* and for credit cards with a monthly spend.
C21_ExtraNeverDelays ==
    \A s \in Slots : Called(s) =>
        /\ results[s][1].time_to_debt_free_months <= results[s][2].time_to_debt_free_months
        /\ results[s][1].time_to_debt_free_months <= results[s][3].time_to_debt_free_months

\* What C22 states of one simulation x (Pay Debt's, or a weighted one's).
StepsInBounds(x) ==
    /\ \A i \in 1..Len(x.debts) : x.debts[i].balance >= 0
    /\ x.phase = "extra" =>
          \A i \in 1..Len(x.debts) :
              /\ 0 <= x.minpaid[i] /\ x.minpaid[i] <= x.owed[i]
              /\ x.debts[i].balance = x.owed[i] - x.minpaid[i]
    /\ (x.phase = "check" \/ (x.phase = "done" /\ x.month >= 1)) =>
          /\ SumSeq(x.applied) <= x.pool
          /\ SumSeq(x.applied) + x.remaining = x.pool
          /\ x.pool = x.extra

\* C22: in every state of the Pay Debt, Hybrid and Debt + EF Goal
\* simulations every balance is >= 0; after interest and minimum payment, the
\* payment applied to a debt is at most its balance with that month's
\* interest; after the extra distribution, what was applied is at most the
\* month's pool, and applied + remaining = pool.
C22_StepsInBounds == StepsInBounds(sim) /\ StepsInBounds(wsim)
====
